---------------------------- MODULE Spec2Model ----------------------------
(***************************************************************************)
(* Model of the eco-ponto backend views (eco_points/views.py) and of the   *)
(* user accounts they authorise against (accounts/models.py).              *)
(*                                                                         *)
(* Every request is handled in one atomic step: a view action takes the    *)
(* caller, the path parameter and the request body, runs the permission    *)
(* check, the lookup, the validation and the write in the order Django     *)
(* REST framework's generic views run them, and leaves the request and the *)
(* response it produced in the variables request and response.             *)
(*                                                                         *)
(* The serializers and the models of the eco_points application live in    *)
(* modules of their own, outside views.py; the operators named after them  *)
(* follow the written specification of the system.                         *)
(***************************************************************************)
EXTENDS Integers, Sequences, FiniteSets, TLC

VARIABLES
    users,            \* accounts table: user id -> row of accounts.User
    points,           \* CollectionPoint table, rows in insertion order
    operating_hours,  \* OperatingHour table
    images,           \* PointImage table
    reviews,          \* PointReview table
    next_id,          \* auto-increment primary-key counters, one per table
    request,          \* the request handled last
    response          \* the response it received

vars == <<users, points, operating_hours, images, reviews, next_id, request, response>>

tables == <<users, points, operating_hours, images, reviews, next_id>>

---------------------------------------------------------------------------
(* Bounds: how many rows each table may ever receive.                      *)

MaxPoints == 2

MaxHours == 2

MaxImages == 2

MaxReviews == 2

---------------------------------------------------------------------------
(* Accounts (accounts/models.py).                                          *)

\* extra_fields a caller of the manager may pass; Unset is an absent key.
Unset == "unset"

\* User.is_staff = models.BooleanField(default=False)
User_is_staff_default == FALSE

\* UserManager.create_user: an empty email raises ValueError (no row, here
\* NoUser); otherwise the row carries the extra fields or the field defaults.
NoUser == [email |-> "", is_staff |-> FALSE, is_superuser |-> FALSE]

create_user(email, extra_is_staff, extra_is_superuser) ==
    IF email = ""
    THEN NoUser
    ELSE [email        |-> email,
          is_staff     |-> IF extra_is_staff = Unset
                           THEN User_is_staff_default
                           ELSE extra_is_staff = "true",
          is_superuser |-> IF extra_is_superuser = Unset
                           THEN FALSE
                           ELSE extra_is_superuser = "true"]

\* UserManager.create_superuser: setdefault is_staff / is_superuser to True.
create_superuser(email, extra_is_staff, extra_is_superuser) ==
    create_user(email,
                IF extra_is_staff = Unset THEN "true" ELSE extra_is_staff,
                IF extra_is_superuser = Unset THEN "true" ELSE extra_is_superuser)

\* The accounts present: one administrator made by create_superuser and one
\* ordinary user made by create_user.
Users == {1, 2}

InitialUsers ==
    [u \in Users |-> IF u = 1
                     THEN create_superuser("admin@eco", Unset, Unset)
                     ELSE create_user("user@eco", Unset, Unset)]

---------------------------------------------------------------------------
(* Framework pieces the views are assembled from.                          *)

Range(s) == {s[i] : i \in DOMAIN s}

Ids(table) == {table[i].id : i \in DOMAIN table}

\* QuerySet.filter is SelectSeq: the rows satisfying the lookup, in table
\* order; QuerySet.delete keeps the rows that do not satisfy it.

\* Serialized list: the representation of each row (its id stands for it).
RECURSIVE serialize(_)
serialize(rows) ==
    IF rows = <<>> THEN <<>> ELSE <<Head(rows).id>> \o serialize(Tail(rows))

\* get_object_or_404 / GenericAPIView.get_object: does the lookup find a row
exists(table, pk) == \E i \in DOMAIN table : table[i].id = pk

get(table, pk) == table[CHOOSE i \in DOMAIN table : table[i].id = pk]

\* QuerySet.update of one row / Model.delete of one row
replace(table, row) ==
    [i \in DOMAIN table |-> IF table[i].id = row.id THEN row ELSE table[i]]

\* rest_framework.permissions
IsAuthenticated(user) == user \in DOMAIN users

IsAdminUser(user) == user \in DOMAIN users /\ users[user].is_staff

\* A request body or a query string: a mapping from some keys to text.
EmptyBody == [k \in {} |-> ""]

has(body, key) == key \in DOMAIN body

Request(view, method, user, pk, body) ==
    [view |-> view, method |-> method, user |-> user, pk |-> pk, body |-> body]

Response(status, data) == [status |-> status, data |-> data]

HTTP_200_OK == 200

HTTP_201_CREATED == 201

HTTP_204_NO_CONTENT == 204

HTTP_400_BAD_REQUEST == 400

HTTP_403_FORBIDDEN == 403

HTTP_404_NOT_FOUND == 404

\* A request that ends in an error response writes nothing.
Fails(req, status) ==
    /\ request' = req
    /\ response' = Response(status, <<>>)
    /\ UNCHANGED tables

---------------------------------------------------------------------------
(* eco_points serializers and model defaults.                              *)

STATUS_CHOICES == {"pending", "approved", "rejected"}

BooleanTexts == {"true", "false"}

to_bool(text) == text = "true"

\* CollectionPointSerializer: the descriptive field is writable and required;
\* is_active, status and the owner are read-only, so their keys are dropped.
CollectionPointSerializer_is_valid(body, partial) ==
    partial \/ has(body, "name")

\* A new point: owner from the request, moderation fields at model defaults.
CollectionPointSerializer_create(body, user, id) ==
    [id |-> id, user |-> user, name |-> body.name,
     is_active |-> FALSE, status |-> "pending"]

CollectionPointSerializer_update(row, body) ==
    [row EXCEPT !.name = IF has(body, "name") THEN body.name ELSE @]

\* PointStatusUpdateSerializer: exactly the two moderation fields.
PointStatusUpdateSerializer_is_valid(body) ==
    /\ has(body, "status") => body.status \in STATUS_CHOICES
    /\ has(body, "is_active") => body.is_active \in BooleanTexts

PointStatusUpdateSerializer_update(row, body) ==
    [row EXCEPT
        !.is_active = IF has(body, "is_active") THEN to_bool(body.is_active) ELSE @,
        !.status    = IF has(body, "status") THEN body.status ELSE @]

---------------------------------------------------------------------------
(* Inputs.                                                                 *)

PointIds == 1..MaxPoints

\* Point bodies: valid, missing the required field, and carrying the
\* moderation keys a client is not meant to set.
PointBodies ==
    { EmptyBody,
      [name |-> "a"],
      [name |-> "b"],
      [name |-> "a", is_active |-> "true", status |-> "approved"],
      [name |-> "b", is_active |-> "true"],
      [status |-> "rejected"] }

\* The bodies of PointBodies that leave the descriptive field at "a".
PlainPointBodies ==
    { [name |-> "a"],
      [name |-> "a", is_active |-> "true", status |-> "approved"],
      [name |-> "a", is_active |-> "true"] }

StatusBodies ==
    { EmptyBody,
      [is_active |-> "true", status |-> "approved"],
      [is_active |-> "false", status |-> "rejected"],
      [is_active |-> "true"],
      [status |-> "pending"],
      [status |-> "archived"] }

---------------------------------------------------------------------------
(* Collection points (views.py).                                           *)

get_all_object_collection_point == points

\* CollectionPointList: ListCreateAPIView, CollectionPointSerializer.
CollectionPointList_get(user) ==
    /\ IsAuthenticated(user)
    /\ request' = Request("CollectionPointList", "GET", user, 0, EmptyBody)
    /\ response' = Response(HTTP_200_OK, serialize(get_all_object_collection_point))
    /\ UNCHANGED tables

\* Mutant: a serializer whose moderation fields are writable on create.
CollectionPointList_serializer_create_writable(body, user, id) ==
    [id |-> id, user |-> user, name |-> body.name,
     is_active |-> IF has(body, "is_active") THEN to_bool(body.is_active) ELSE FALSE,
     status |-> IF has(body, "status") THEN body.status ELSE "pending"]

\* serializer_class = CollectionPointSerializer
CollectionPointList_serializer_create(body, user, id) ==
    CollectionPointSerializer_create(body, user, id)

CollectionPointList_post(user, body) ==
    LET req == Request("CollectionPointList", "POST", user, 0, body) IN
    /\ IsAuthenticated(user)
    /\ next_id.point <= MaxPoints
    /\ IF ~CollectionPointSerializer_is_valid(body, FALSE)
       THEN Fails(req, HTTP_400_BAD_REQUEST)
       ELSE /\ points' = Append(points,
                    CollectionPointList_serializer_create(body, user, next_id.point))
            /\ next_id' = [next_id EXCEPT !.point = @ + 1]
            /\ request' = req
            /\ response' = Response(HTTP_201_CREATED, <<next_id.point>>)
            /\ UNCHANGED <<users, operating_hours, images, reviews>>

\* CollectionPointDetail: RetrieveUpdateDestroyAPIView, CollectionPointSerializer.
CollectionPointDetail_get(user, pk) ==
    LET req == Request("CollectionPointDetail", "GET", user, pk, EmptyBody) IN
    /\ IsAuthenticated(user)
    /\ IF ~exists(get_all_object_collection_point, pk)
       THEN Fails(req, HTTP_404_NOT_FOUND)
       ELSE /\ request' = req
            /\ response' = Response(HTTP_200_OK, <<pk>>)
            /\ UNCHANGED tables

\* PUT (partial = FALSE) and PATCH (partial = TRUE)
\* Mutant: a serializer whose moderation fields are writable on update.
CollectionPointDetail_serializer_update_writable(row, body) ==
    PointStatusUpdateSerializer_update(CollectionPointSerializer_update(row, body), body)

\* serializer_class = CollectionPointSerializer
CollectionPointDetail_serializer_update(row, body) ==
    CollectionPointSerializer_update(row, body)

CollectionPointDetail_update(user, pk, body, partial) ==
    LET req == Request("CollectionPointDetail",
                       IF partial THEN "PATCH" ELSE "PUT", user, pk, body) IN
    /\ IsAuthenticated(user)
    /\ IF ~exists(get_all_object_collection_point, pk)
       THEN Fails(req, HTTP_404_NOT_FOUND)
       ELSE IF ~CollectionPointSerializer_is_valid(body, partial)
       THEN Fails(req, HTTP_400_BAD_REQUEST)
       ELSE /\ points' = replace(points,
                    CollectionPointDetail_serializer_update(get(points, pk), body))
            /\ request' = req
            /\ response' = Response(HTTP_200_OK, <<pk>>)
            /\ UNCHANGED <<users, operating_hours, images, reviews, next_id>>

\* DELETE: the point goes, and with it the hours and images it owns.
CollectionPointDetail_delete(user, pk) ==
    LET req == Request("CollectionPointDetail", "DELETE", user, pk, EmptyBody) IN
    /\ IsAuthenticated(user)
    /\ IF ~exists(get_all_object_collection_point, pk)
       THEN Fails(req, HTTP_404_NOT_FOUND)
       ELSE /\ points' = SelectSeq(points, LAMBDA p : p.id # pk)
            /\ operating_hours' =
                   SelectSeq(operating_hours, LAMBDA h : h.collection_point_id # pk)
            /\ images' = SelectSeq(images, LAMBDA i : i.collection_point_id # pk)
            /\ request' = req
            /\ response' = Response(HTTP_204_NO_CONTENT, <<>>)
            /\ UNCHANGED <<users, reviews, next_id>>

\* Mutant: the owner's listing narrowed to the visible points.
UserSubmitedCollectionPointsList_get_queryset_active(user) ==
    SelectSeq(points, LAMBDA p : p.user = user /\ p.is_active = TRUE)

\* UserSubmitedCollectionPointsList.get_queryset: filter(user=request.user)
UserSubmitedCollectionPointsList_get_queryset(user) ==
    SelectSeq(points, LAMBDA p : p.user = user)

UserSubmitedCollectionPointsList_get(user) ==
    /\ IsAuthenticated(user)
    /\ request' = Request("UserSubmitedCollectionPointsList", "GET", user, 0, EmptyBody)
    /\ response' = Response(HTTP_200_OK,
                        serialize(UserSubmitedCollectionPointsList_get_queryset(user)))
    /\ UNCHANGED tables

\* ActiveCollectionPointsList.get_queryset: filter(is_active=True)
ActiveCollectionPointsList_get_queryset ==
    SelectSeq(points, LAMBDA p : p.is_active = TRUE)

ActiveCollectionPointsList_get(user) ==
    /\ IsAuthenticated(user)
    /\ request' = Request("ActiveCollectionPointsList", "GET", user, 0, EmptyBody)
    /\ response' = Response(HTTP_200_OK,
                        serialize(ActiveCollectionPointsList_get_queryset))
    /\ UNCHANGED tables

\* Mutant: the review queue filtered on status alone.
InactiveCollectionPointsList_get_queryset_status_only ==
    SelectSeq(points, LAMBDA p : p.status = "pending")

\* InactiveCollectionPointsList.get_queryset: filter(is_active=False, status='pending')
InactiveCollectionPointsList_get_queryset ==
    SelectSeq(points, LAMBDA p : p.is_active = FALSE /\ p.status = "pending")

InactiveCollectionPointsList_get(user) ==
    /\ IsAuthenticated(user)
    /\ request' = Request("InactiveCollectionPointsList", "GET", user, 0, EmptyBody)
    /\ response' = Response(HTTP_200_OK,
                        serialize(InactiveCollectionPointsList_get_queryset))
    /\ UNCHANGED tables

\* Mutant: the moderation endpoint open to every authenticated user.
UpdatePointStatusView_has_permission_authenticated(user) == IsAuthenticated(user)

\* Mutant: the lookup done before the permission check.
UpdatePointStatusView_patch_lookup_first(user, pk, body) ==
    LET req == Request("UpdatePointStatusView", "PATCH", user, pk, body) IN
    IF ~exists(points, pk)
    THEN Fails(req, HTTP_404_NOT_FOUND)
    ELSE IF ~IsAdminUser(user)
    THEN Fails(req, HTTP_403_FORBIDDEN)
    ELSE IF ~PointStatusUpdateSerializer_is_valid(body)
    THEN Fails(req, HTTP_400_BAD_REQUEST)
    ELSE /\ points' = replace(points,
                 PointStatusUpdateSerializer_update(get(points, pk), body))
         /\ request' = req
         /\ response' = Response(HTTP_200_OK, <<pk>>)
         /\ UNCHANGED <<users, operating_hours, images, reviews, next_id>>

\* UpdatePointStatusView: UpdateAPIView, PointStatusUpdateSerializer,
\* permission_classes = [IsAdminUser].  The permission is checked when the
\* request is dispatched, before the handler looks the point up.
UpdatePointStatusView_has_permission(user) == IsAdminUser(user)

UpdatePointStatusView_patch(user, pk, body) ==
    LET req == Request("UpdatePointStatusView", "PATCH", user, pk, body) IN
    IF ~UpdatePointStatusView_has_permission(user)
    THEN Fails(req, HTTP_403_FORBIDDEN)
    ELSE IF ~exists(get_all_object_collection_point, pk)
    THEN Fails(req, HTTP_404_NOT_FOUND)
    ELSE IF ~PointStatusUpdateSerializer_is_valid(body)
    THEN Fails(req, HTTP_400_BAD_REQUEST)
    ELSE /\ points' = replace(points,
                 PointStatusUpdateSerializer_update(get(points, pk), body))
         /\ request' = req
         /\ response' = Response(HTTP_200_OK, <<pk>>)
         /\ UNCHANGED <<users, operating_hours, images, reviews, next_id>>

---------------------------------------------------------------------------
(* Operating hours (views.py).                                             *)

\* OperatingHourSerializer: the descriptive field is required; a foreign key
\* in the body must name an existing point.
OperatingHourSerializer_is_valid(body) ==
    /\ has(body, "day")
    /\ has(body, "collection_point_id") => exists(points, body.collection_point_id)

\* The validated data: the body's keys, the descriptive field and, when the
\* body supplies it, the foreign key.
OperatingHourSerializer_validated_data(body) == body

\* serializer.save(**kwargs): the kwargs are laid over the validated data
\* before Model.objects.create, so the keyword's foreign key is the one stored.
OperatingHourSerializer_save(validated_data, collection_point_id, id) ==
    [id |-> id, day |-> validated_data.day,
     collection_point_id |-> collection_point_id]

HourBodies ==
    { EmptyBody, [day |-> "mon"] }
    \cup { [day |-> "mon", collection_point_id |-> q] : q \in PointIds }

\* OperatingHourList.post: the foreign key comes from the body.
OperatingHourList_post(user, body) ==
    LET req == Request("OperatingHourList", "POST", user, 0, body) IN
    /\ IsAuthenticated(user)
    /\ next_id.hour <= MaxHours
    /\ IF ~(OperatingHourSerializer_is_valid(body) /\ has(body, "collection_point_id"))
       THEN Fails(req, HTTP_400_BAD_REQUEST)
       ELSE LET data == OperatingHourSerializer_validated_data(body) IN
            /\ operating_hours' = Append(operating_hours,
                   OperatingHourSerializer_save(data, data.collection_point_id,
                                                next_id.hour))
            /\ next_id' = [next_id EXCEPT !.hour = @ + 1]
            /\ request' = req
            /\ response' = Response(HTTP_201_CREATED, <<next_id.hour>>)
            /\ UNCHANGED <<users, points, images, reviews>>

\* OperatingHourDetail.get_queryset: filter(collection_point_id=pk); the
\* route always supplies the pk.
OperatingHourDetail_get_queryset(collection_point_pk) ==
    SelectSeq(operating_hours, LAMBDA h : h.collection_point_id = collection_point_pk)

OperatingHourDetail_get(user, collection_point_pk) ==
    /\ IsAuthenticated(user)
    /\ request' = Request("OperatingHourDetail", "GET", user, collection_point_pk,
                          EmptyBody)
    /\ response' = Response(HTTP_200_OK,
                       serialize(OperatingHourDetail_get_queryset(collection_point_pk)))
    /\ UNCHANGED tables

\* OperatingHourDetail.perform_create:
\*   get_object_or_404(CollectionPoint, pk=collection_point_pk)
\*   serializer.save(collection_point_id=collection_point_pk)
\* The row written, or NoRow when the lookup raises Http404.
NoRow == [id |-> 0, day |-> "", collection_point_id |-> 0]

\* Mutant: the body's foreign key kept when the body supplies one.
OperatingHourDetail_perform_create_body_key(validated_data, collection_point_pk, id) ==
    IF ~exists(points, collection_point_pk)
    THEN NoRow
    ELSE OperatingHourSerializer_save(validated_data,
             IF has(validated_data, "collection_point_id")
             THEN validated_data.collection_point_id ELSE collection_point_pk, id)

\* Mutant: the save done without looking the point up.
OperatingHourDetail_perform_create_unchecked(validated_data, collection_point_pk, id) ==
    OperatingHourSerializer_save(validated_data, collection_point_pk, id)

OperatingHourDetail_perform_create(validated_data, collection_point_pk, id) ==
    IF ~exists(points, collection_point_pk)
    THEN NoRow
    ELSE OperatingHourSerializer_save(validated_data, collection_point_pk, id)

\* CreateModelMixin.create: is_valid(raise_exception=True), then perform_create.
OperatingHourDetail_post(user, collection_point_pk, body) ==
    LET req == Request("OperatingHourDetail", "POST", user, collection_point_pk, body)
        row == OperatingHourDetail_perform_create(
                   OperatingHourSerializer_validated_data(body),
                   collection_point_pk, next_id.hour)
    IN
    /\ IsAuthenticated(user)
    /\ next_id.hour <= MaxHours
    /\ IF ~OperatingHourSerializer_is_valid(body)
       THEN Fails(req, HTTP_400_BAD_REQUEST)
       ELSE IF row = NoRow
       THEN Fails(req, HTTP_404_NOT_FOUND)
       ELSE /\ operating_hours' = Append(operating_hours, row)
            /\ next_id' = [next_id EXCEPT !.hour = @ + 1]
            /\ request' = req
            /\ response' = Response(HTTP_201_CREATED, <<next_id.hour>>)
            /\ UNCHANGED <<users, points, images, reviews>>

---------------------------------------------------------------------------
(* Images (views.py).                                                      *)

\* PointImageUploadSerializer: the file field is required.
PointImageUploadSerializer_is_valid(body) == has(body, "image")

ImageBodies == { EmptyBody, [image |-> "f.png"], [image |-> "g.png"] }

\* Mutant: get_or_create, which reuses a row holding the same file.
PointImage_objects_get_or_create(collection_point_id, image_file, id) ==
    IF \E i \in DOMAIN images :
           /\ images[i].collection_point_id = collection_point_id
           /\ images[i].image = image_file
    THEN images
    ELSE Append(images,
                [id |-> id, collection_point_id |-> collection_point_id,
                 image |-> image_file])

\* PointImage.objects.create(collection_point=collection_point, image=image_file)
PointImage_objects_create(collection_point_id, image_file, id) ==
    Append(images,
           [id |-> id, collection_point_id |-> collection_point_id,
            image |-> image_file])

\* PointImageUploadView.post: lookup, then validation, then the insert.
PointImageUploadView_post(user, pk, body) ==
    LET req == Request("PointImageUploadView", "POST", user, pk, body) IN
    /\ IsAuthenticated(user)
    /\ next_id.image <= MaxImages
    /\ IF ~exists(points, pk)
       THEN Fails(req, HTTP_404_NOT_FOUND)
       ELSE IF ~PointImageUploadSerializer_is_valid(body)
       THEN Fails(req, HTTP_400_BAD_REQUEST)
       ELSE /\ images' = PointImage_objects_create(pk, body.image, next_id.image)
            /\ next_id' = [next_id EXCEPT !.image = @ + 1]
            /\ request' = req
            /\ response' = Response(HTTP_201_CREATED, <<next_id.image>>)
            /\ UNCHANGED <<users, points, operating_hours, reviews>>

---------------------------------------------------------------------------
(* Reviews (views.py).                                                     *)

get_all_object_point_review == reviews

\* PointReviewSerializer: the reviewed point comes from the body and must
\* exist; the reviewer is the caller.
PointReviewSerializer_is_valid(body) ==
    has(body, "collection_point") /\ exists(points, body.collection_point)

PointReviewSerializer_create(body, user, id) ==
    [id |-> id, user_id |-> user, collection_point_id |-> body.collection_point]

ReviewBodies == { EmptyBody } \cup { [collection_point |-> q] : q \in PointIds }

\* PointReviewList: ListCreateAPIView.
PointReviewList_post(user, body) ==
    LET req == Request("PointReviewList", "POST", user, 0, body) IN
    /\ IsAuthenticated(user)
    /\ next_id.review <= MaxReviews
    /\ IF ~PointReviewSerializer_is_valid(body)
       THEN Fails(req, HTTP_400_BAD_REQUEST)
       ELSE /\ reviews' = Append(reviews,
                   PointReviewSerializer_create(body, user, next_id.review))
            /\ next_id' = [next_id EXCEPT !.review = @ + 1]
            /\ request' = req
            /\ response' = Response(HTTP_201_CREATED, <<next_id.review>>)
            /\ UNCHANGED <<users, points, operating_hours, images>>

\* PointReviewDetail: RetrieveUpdateDestroyAPIView, DELETE.
PointReviewDetail_delete(user, pk) ==
    LET req == Request("PointReviewDetail", "DELETE", user, pk, EmptyBody) IN
    /\ IsAuthenticated(user)
    /\ IF ~exists(get_all_object_point_review, pk)
       THEN Fails(req, HTTP_404_NOT_FOUND)
       ELSE /\ reviews' = SelectSeq(reviews, LAMBDA r : r.id # pk)
            /\ request' = req
            /\ response' = Response(HTTP_204_NO_CONTENT, <<>>)
            /\ UNCHANGED <<users, points, operating_hours, images, next_id>>

\* Query parameters are text.  The ORM turns the text given to an integer
\* lookup into a number and raises ValueError on text that is no number.
IdTexts == [t \in {"1", "2", "3", "4"} |->
               CASE t = "1" -> 1 [] t = "2" -> 2 [] t = "3" -> 3 [] t = "4" -> 4]

is_number(text) == text \in DOMAIN IdTexts

to_int(text) == IdTexts[text]

\* request.query_params.get(key): the value, or None (here "") when absent;
\* an absent and an empty parameter are both falsy.
query_params_get(params, key) == IF has(params, key) THEN params[key] ELSE ""

HTTP_500_INTERNAL_SERVER_ERROR == 500

\* PointReviewFilteredList.get: the names of the two parameters it reads.
PointReviewFilteredList_user_id(params) == query_params_get(params, "user_id")

PointReviewFilteredList_point_id(params) == query_params_get(params, "id")

PointReviewFilteredList_queryset(params) ==
    LET user_id  == PointReviewFilteredList_user_id(params)
        point_id == PointReviewFilteredList_point_id(params)
        by_user  == IF user_id # ""
                    THEN SelectSeq(reviews, LAMBDA r : r.user_id = to_int(user_id))
                    ELSE reviews
    IN  IF point_id # ""
        THEN SelectSeq(by_user, LAMBDA r : r.collection_point_id = to_int(point_id))
        ELSE by_user

PointReviewFilteredList_get(user, params) ==
    LET req == Request("PointReviewFilteredList", "GET", user, 0, params)
        user_id  == PointReviewFilteredList_user_id(params)
        point_id == PointReviewFilteredList_point_id(params)
    IN
    /\ IsAuthenticated(user)
    /\ IF \/ user_id # "" /\ ~is_number(user_id)
          \/ point_id # "" /\ ~is_number(point_id)
       THEN Fails(req, HTTP_500_INTERNAL_SERVER_ERROR)
       ELSE /\ request' = req
            /\ response' = Response(HTTP_200_OK,
                               serialize(PointReviewFilteredList_queryset(params)))
            /\ UNCHANGED tables

FilterParams ==
    { EmptyBody,
      [user_id |-> "1"], [user_id |-> "2"], [user_id |-> ""], [user_id |-> "x"],
      [point_id |-> "1"], [point_id |-> "2"],
      [id |-> "1"], [id |-> "2"],
      [user_id |-> "1", point_id |-> "1"], [user_id |-> "2", point_id |-> "2"],
      [user_id |-> "2", point_id |-> "1"],
      [user_id |-> "2", id |-> "1"] }

---------------------------------------------------------------------------
(* Specifications.                                                         *)

Init ==
    /\ users = InitialUsers
    /\ points = <<>>
    /\ operating_hours = <<>>
    /\ images = <<>>
    /\ reviews = <<>>
    /\ next_id = [point |-> 1, hour |-> 1, image |-> 1, review |-> 1]
    /\ request = Request("", "", 0, 0, EmptyBody)
    /\ response = Response(0, <<>>)

\* The registry and its moderation: submissions, edits that try to set the
\* moderation fields, deletions, the filtered listings and the moderation
\* endpoint.
Next ==
    \/ \E u \in Users, b \in PlainPointBodies : CollectionPointList_post(u, b)
    \/ \E u \in Users, pk \in PointIds, b \in PlainPointBodies :
           CollectionPointDetail_update(u, pk, b, TRUE)
    \/ \E u \in Users, pk \in PointIds : CollectionPointDetail_delete(u, pk)
    \/ \E u \in Users : UserSubmitedCollectionPointsList_get(u)
    \/ \E u \in Users : ActiveCollectionPointsList_get(u)
    \/ \E u \in Users : InactiveCollectionPointsList_get(u)
    \/ \E u \in Users, pk \in PointIds, b \in StatusBodies :
           UpdatePointStatusView_patch(u, pk, b)

Spec == Init /\ [][Next]_vars

\* What any authenticated user can do to a point: submit, edit, delete.
NextSubmit ==
    \/ \E u \in Users, b \in PointBodies : CollectionPointList_post(u, b)
    \/ \E u \in Users, pk \in PointIds, b \in PointBodies, partial \in BOOLEAN :
           CollectionPointDetail_update(u, pk, b, partial)
    \/ \E u \in Users, pk \in PointIds : CollectionPointDetail_delete(u, pk)
    \/ \E u \in Users, pk \in PointIds : CollectionPointDetail_get(u, pk)
    \/ \E u \in Users : CollectionPointList_get(u)
    \/ \E u \in Users : UserSubmitedCollectionPointsList_get(u)

SpecSubmit == Init /\ [][NextSubmit]_vars

\* Operating hours of points that come and go.
NextHours ==
    \/ \E u \in Users : CollectionPointList_post(u, [name |-> "a"])
    \/ \E u \in Users, pk \in PointIds : CollectionPointDetail_delete(u, pk)
    \/ \E u \in Users, b \in HourBodies : OperatingHourList_post(u, b)
    \/ \E u \in Users, pk \in PointIds : OperatingHourDetail_get(u, pk)
    \/ \E u \in Users, pk \in PointIds, b \in HourBodies :
           OperatingHourDetail_post(u, pk, b)

SpecHours == Init /\ [][NextHours]_vars

\* Images of points that come and go.
NextImages ==
    \/ \E u \in Users : CollectionPointList_post(u, [name |-> "a"])
    \/ \E u \in Users, pk \in PointIds : CollectionPointDetail_delete(u, pk)
    \/ \E u \in Users, pk \in PointIds, b \in ImageBodies :
           PointImageUploadView_post(u, pk, b)

SpecImages == Init /\ [][NextImages]_vars

\* The two scoped creations side by side.
NextScoped ==
    \/ CollectionPointList_post(2, [name |-> "a"])
    \/ \E pk \in PointIds : CollectionPointDetail_delete(2, pk)
    \/ \E pk \in PointIds, b \in {EmptyBody, [day |-> "mon"]} :
           OperatingHourDetail_post(2, pk, b)
    \/ \E pk \in PointIds, b \in {EmptyBody, [image |-> "f.png"]} :
           PointImageUploadView_post(2, pk, b)

SpecScoped == Init /\ [][NextScoped]_vars

\* Reviews and the review filter.
NextReviews ==
    \/ CollectionPointList_post(2, [name |-> "a"])
    \/ \E u \in Users, b \in ReviewBodies : PointReviewList_post(u, b)
    \/ \E u \in Users, pk \in 1..MaxReviews : PointReviewDetail_delete(u, pk)
    \/ \E u \in Users, q \in FilterParams : PointReviewFilteredList_get(u, q)

SpecReviews == Init /\ [][NextReviews]_vars

---------------------------------------------------------------------------
(* Properties.                                                             *)

IsRequest(req, view, method) == req.view = view /\ req.method = method

NonAdmin(user) == user \in DOMAIN users /\ ~users[user].is_staff

\* The response lists each of the ids once and nothing else.
ListsExactly(data, ids) == Range(data) = ids /\ Len(data) = Cardinality(ids)

\* C1: after its creation a point's is_active and status change only in a
\* step that is a successful call of the moderation endpoint by an
\* administrator for that point; every other operation, the edit through
\* /collection-points/{id}/ with the moderation keys in its body included,
\* leaves them as they are, and a newly stored point is inactive and pending.
C1_ModerationFieldsChangeOnlyByAdminModeration ==
    [][ /\ \A i \in DOMAIN points : \A j \in DOMAIN points' :
              ( /\ points[i].id = points'[j].id
                /\ \/ points[i].is_active # points'[j].is_active
                   \/ points[i].status # points'[j].status )
              => /\ IsRequest(request', "UpdatePointStatusView", "PATCH")
                 /\ request'.pk = points[i].id
                 /\ IsAdminUser(request'.user)
                 /\ response'.status = HTTP_200_OK
        /\ \A j \in DOMAIN points' :
              points'[j].id \notin Ids(points)
              => points'[j].is_active = FALSE /\ points'[j].status = "pending"
      ]_vars

\* C1 witness: a non-admin's edit carrying is_active succeeded and the point
\* is still inactive and pending.
C1_Witness ==
    /\ IsRequest(request, "CollectionPointDetail", "PATCH")
    /\ NonAdmin(request.user)
    /\ has(request.body, "is_active")
    /\ response.status = HTTP_200_OK
    /\ exists(points, request.pk)
    /\ get(points, request.pk).is_active = FALSE
    /\ get(points, request.pk).status = "pending"

\* C2: a create through POST /collection-points/ with a body that passes
\* validation answers 201 and stores a point that is inactive, pending and
\* owned by the caller, whatever the body says about is_active and status.
C2_CreateYieldsPendingInactiveOwned ==
    IsRequest(request, "CollectionPointList", "POST")
    => IF has(request.body, "name")
       THEN /\ response.status = HTTP_201_CREATED
            /\ Len(response.data) = 1
            /\ exists(points, response.data[1])
            /\ LET p == get(points, response.data[1]) IN
                   /\ p.is_active = FALSE
                   /\ p.status = "pending"
                   /\ p.user = request.user
                   /\ p.name = request.body.name
       ELSE response.status = HTTP_400_BAD_REQUEST

\* C2 witness: a point was created from a body asking for is_active = true.
C2_Witness ==
    /\ IsRequest(request, "CollectionPointList", "POST")
    /\ has(request.body, "is_active")
    /\ request.body.is_active = "true"
    /\ response.status = HTTP_201_CREATED
    /\ get(points, response.data[1]).is_active = FALSE

\* C3: a moderation call by a caller who is not an administrator is answered
\* 403, for an id that exists and for one that does not, and writes nothing.
C3_NonAdminModerationForbidden ==
    [][ ( /\ IsRequest(request', "UpdatePointStatusView", "PATCH")
          /\ NonAdmin(request'.user) )
        => /\ response'.status = HTTP_403_FORBIDDEN
           /\ UNCHANGED tables
      ]_vars

\* C3 witness: a non-admin got 403 for an id that names no point, while
\* another point exists.
C3_Witness ==
    /\ IsRequest(request, "UpdatePointStatusView", "PATCH")
    /\ NonAdmin(request.user)
    /\ response.status = HTTP_403_FORBIDDEN
    /\ ~exists(points, request.pk)
    /\ points # <<>>

\* C4 as claimed: every point with is_active = true has a status other than
\* pending.
C4_ActiveImpliesNotPending ==
    \A i \in DOMAIN points : points[i].is_active => points[i].status # "pending"

ActivePending(p) == p.is_active /\ p.status = "pending"

\* C4 as amended: creates, edits and deletions never leave a point active
\* and pending; a point becomes active while pending only in a successful
\* moderation call by an administrator for that point, whose body sets
\* neither is_active to false nor status to approved or rejected (the
\* endpoint writes the two fields independently of each other).
C4_ActivePendingOnlyByUncoupledModeration ==
    [][ \A j \in DOMAIN points' :
            ( /\ ActivePending(points'[j])
              /\ ~\E i \in DOMAIN points :
                     points[i].id = points'[j].id /\ ActivePending(points[i]) )
            => /\ IsRequest(request', "UpdatePointStatusView", "PATCH")
               /\ request'.pk = points'[j].id
               /\ IsAdminUser(request'.user)
               /\ response'.status = HTTP_200_OK
               /\ has(request'.body, "is_active") => request'.body.is_active = "true"
               /\ has(request'.body, "status") => request'.body.status = "pending"
      ]_vars

\* C4 witness: an administrator's call with only is_active = true left the
\* point active and pending.
C4_Witness ==
    /\ IsRequest(request, "UpdatePointStatusView", "PATCH")
    /\ IsAdminUser(request.user)
    /\ request.body = [is_active |-> "true"]
    /\ response.status = HTTP_200_OK
    /\ ActivePending(get(points, request.pk))

C9_OwnListingExact ==
    IsRequest(request, "UserSubmitedCollectionPointsList", "GET")
    => /\ response.status = HTTP_200_OK
       /\ ListsExactly(response.data,
                       {p.id : p \in {x \in Range(points) : x.user = request.user}})

\* C9 witness: the listing holds an inactive pending point of the caller
\* that the active listing lacks, and leaves out another user's point.
C9_Witness ==
    /\ IsRequest(request, "UserSubmitedCollectionPointsList", "GET")
    /\ \E i \in DOMAIN points :
           /\ points[i].id \in Range(response.data)
           /\ ~points[i].is_active
           /\ points[i].id \notin Range(serialize(ActiveCollectionPointsList_get_queryset))
    /\ \E i \in DOMAIN points :
           /\ points[i].user # request.user
           /\ points[i].id \notin Range(response.data)

\* C6: a scoped operating-hour create for an existing point P whose body
\* passes validation answers 201 and appends exactly one record, and that
\* record's foreign key is P whatever foreign key the body names; no other
\* record is added or changed.
C6_ScopedCreateLinksToPathPoint ==
    [][ IsRequest(request', "OperatingHourDetail", "POST")
        => /\ ( exists(points, request'.pk)
                /\ OperatingHourSerializer_is_valid(request'.body) )
              => response'.status = HTTP_201_CREATED
           /\ IF response'.status = HTTP_201_CREATED
              THEN /\ Len(operating_hours') = Len(operating_hours) + 1
                   /\ SubSeq(operating_hours', 1, Len(operating_hours)) = operating_hours
                   /\ LET row == operating_hours'[Len(operating_hours')] IN
                          /\ row.collection_point_id = request'.pk
                          /\ row.id \notin Ids(operating_hours)
                          /\ row.id = response'.data[1]
              ELSE operating_hours' = operating_hours
      ]_vars

\* C6 witness: a scoped create for P with a body naming another existing
\* point Q stored a record linked to P.
C6_Witness ==
    /\ IsRequest(request, "OperatingHourDetail", "POST")
    /\ response.status = HTTP_201_CREATED
    /\ has(request.body, "collection_point_id")
    /\ request.body.collection_point_id # request.pk
    /\ exists(points, request.body.collection_point_id)
    /\ get(operating_hours, response.data[1]).collection_point_id = request.pk

ScopedCreate(req) ==
    \/ IsRequest(req, "OperatingHourDetail", "POST")
    \/ IsRequest(req, "PointImageUploadView", "POST")

\* C7 as claimed: a scoped create (operating hour or image) for a point id
\* that does not exist is answered 404.
C7_MissingPointAnswers404 ==
    ( ScopedCreate(request) /\ ~exists(points, request.pk) )
    => response.status = HTTP_404_NOT_FOUND

\* C7 as amended: a scoped create for a point id that does not exist fails
\* and leaves the operating hours and the images as they are; the answer is
\* 404, except 400 for an operating-hour body that fails validation, which
\* the view checks before it looks the point up.
C7_MissingPointWritesNothing ==
    [][ ( ScopedCreate(request') /\ ~exists(points, request'.pk) )
        => /\ operating_hours' = operating_hours
           /\ images' = images
           /\ points' = points
           /\ response'.status =
                IF /\ IsRequest(request', "OperatingHourDetail", "POST")
                   /\ ~OperatingHourSerializer_is_valid(request'.body)
                THEN HTTP_400_BAD_REQUEST
                ELSE HTTP_404_NOT_FOUND
      ]_vars

\* C7 witness: with hours and images stored, an operating-hour create for a
\* point that is gone was answered 404.
C7_Witness ==
    /\ IsRequest(request, "OperatingHourDetail", "POST")
    /\ ~exists(points, request.pk)
    /\ response.status = HTTP_404_NOT_FOUND
    /\ operating_hours # <<>>
    /\ images # <<>>

\* The query strings the claim speaks of: user_id and point_id only, each
\* empty or a number.
NumericParams(params) ==
    /\ DOMAIN params \subseteq {"user_id", "point_id"}
    /\ \A k \in DOMAIN params : params[k] = "" \/ is_number(params[k])

Given(params, key) == has(params, key) /\ params[key] # ""

\* C8 as claimed: the review filter answers 200 with exactly the reviews
\* whose reviewer is user_id, when user_id is given, and whose point is
\* point_id, when point_id is given.
C8_FilterAppliesGivenParameters ==
    ( IsRequest(request, "PointReviewFilteredList", "GET")
      /\ NumericParams(request.body) )
    => /\ response.status = HTTP_200_OK
       /\ ListsExactly(response.data,
              {r.id : r \in {x \in Range(reviews) :
                  /\ Given(request.body, "user_id")
                        => x.user_id = to_int(request.body.user_id)
                  /\ Given(request.body, "point_id")
                        => x.collection_point_id = to_int(request.body.point_id)}})

\* C10: a successful upload to point P appends exactly one image record,
\* with a new id and linked to P, also when an image with the same file is
\* already there; it changes no other image, no point and no operating hour.
C10_UploadAddsExactlyOneImage ==
    [][ ( IsRequest(request', "PointImageUploadView", "POST")
          /\ response'.status = HTTP_201_CREATED )
        => /\ Len(images') = Len(images) + 1
           /\ SubSeq(images', 1, Len(images)) = images
           /\ LET row == images'[Len(images')] IN
                  /\ row.collection_point_id = request'.pk
                  /\ row.image = request'.body.image
                  /\ row.id \notin Ids(images)
                  /\ row.id = response'.data[1]
           /\ points' = points
           /\ operating_hours' = operating_hours
      ]_vars

\* C10 witness: two uploads of the same file to the same point left two
\* records with different ids.
C10_Witness ==
    /\ IsRequest(request, "PointImageUploadView", "POST")
    /\ response.status = HTTP_201_CREATED
    /\ \E i \in DOMAIN images : \E j \in DOMAIN images :
           /\ i # j
           /\ images[i].id # images[j].id
           /\ images[i].collection_point_id = request.pk
           /\ images[j].collection_point_id = request.pk
           /\ images[i].image = images[j].image

===========================================================================
